---- MODULE Spec2Model ----
(***************************************************************************)
(* Model of the booking backend in src/api/index.js: the two JSON stores   *)
(* users.json and bookings.json and the handlers that read and rewrite     *)
(* them (signup, signin, book, a user's bookings).                         *)
(*                                                                         *)
(* Granularity.  The handlers are async functions on one event loop: a     *)
(* handler runs without interruption up to an await, so the only points    *)
(* where requests interleave are the awaits of loadData and saveData.  A   *)
(* handler's synchronous validation touches no shared state, so it is      *)
(* taken in one step with the load that follows it; the save and the       *)
(* response after it are the second step.  fs.readFile and fs.writeFile    *)
(* are taken as all-or-nothing: a read returns the content of the store,   *)
(* a write replaces it or fails and leaves it as it was.                   *)
(*                                                                         *)
(* The stores hold JSON text; the model keeps the parsed array.  The       *)
(* records the handlers write hold only strings, numbers and null, which   *)
(* JSON.stringify / JSON.parse return unchanged.  createdAt is left out:   *)
(* nothing reads it.                                                       *)
(***************************************************************************)
EXTENDS Integers, Sequences, FiniteSets, TLC

(* ---- bounds ---------------------------------------------------------- *)
\* Requests issued in one behaviour.
MaxReqs == 3

(* ---- JavaScript values ----------------------------------------------- *)
Undefined == <<"undefined">>
Null == <<"null">>
NaN == <<"NaN">>
Num(n) == <<"number", n>>
Str(s) == <<"string", s>>

\* ToBoolean, as used by `!x` and `x || y`.
Truthy(v) == v \notin {Undefined, Null, NaN, Num(0), Str("")}

\* a || b
Or(a, b) == IF Truthy(a) THEN a ELSE b

\* Math.max(...xs) for a non-empty array of numbers.
MathMax(xs) == CHOOSE m \in {xs[i][2] : i \in DOMAIN xs} : \A i \in DOMAIN xs : xs[i][2] <= m

\* Array.prototype.map(r => r.id)
Ids(coll) == [i \in DOMAIN coll |-> coll[i].id]

\* The id expression of both handlers: length > 0 ? Math.max(...ids) + 1 : 1
NextIdLength(coll) == Num(Len(coll) + 1)
NextIdMax(coll) == IF Len(coll) > 0 THEN Num(MathMax(Ids(coll))) ELSE Num(1)
NextId(coll) == IF Len(coll) > 0 THEN Num(MathMax(Ids(coll)) + 1) ELSE Num(1)

\* crypto sha256 hex digest of a string: a string, injective on the inputs
\* used here, never equal to its input.
hashPassword(password) == Str("sha256:" \o password[2])

(* ---- request inputs -------------------------------------------------- *)
Emails == {Str("a@x"), Str("b@x")}
Passwords == {Str("pw1"), Str("pw2")}
GoodSignup == [email |-> Str("a@x"), password |-> Str("pw1"), name |-> Str("An"), phone |-> Str("0901")]

\* Signup bodies: complete ones, ones with one field absent, and one with an
\* empty email.
SignupBodies ==
    {[GoodSignup EXCEPT !.email = e] : e \in Emails}
    \cup {[GoodSignup EXCEPT !.password = Str("pw2"), !.name = Str("Binh")]}
    \cup {[GoodSignup EXCEPT ![f] = Undefined] : f \in {"email", "password", "name", "phone"}}
    \cup {[GoodSignup EXCEPT !.email = Str("")]}

SigninBodies ==
    [email : Emails \cup {Undefined}, password : Passwords \cup {Undefined}]

RequiredBookFields ==
    {"technicianId", "customerName", "phone", "address", "serviceType", "serviceId", "date"}
GoodBook ==
    [technicianId |-> Num(1), customerName |-> Str("Lan"), phone |-> Str("0907"),
     address |-> Str("12 Le Loi"), serviceType |-> Str("electrical"), serviceId |-> Num(1),
     price |-> Num(150000), date |-> Str("2025-01-01"), time |-> Undefined,
     notes |-> Undefined, userId |-> Undefined]

\* Booking bodies: complete ones for several owners and with or without the
\* optional fields, ones with one required field absent, and ones with a
\* required field present but falsy (0 for a number, "" for a string).
BookBodies ==
    {[GoodBook EXCEPT !.userId = u] : u \in {Undefined, Num(1)}}
    \cup {[GoodBook EXCEPT !.price = Undefined, !.time = Str("09:00"), !.userId = Num(0)]}
    \cup {[GoodBook EXCEPT ![f] = Undefined] : f \in RequiredBookFields}
    \cup {[GoodBook EXCEPT !.technicianId = Num(0)], [GoodBook EXCEPT !.customerName = Str("")]}

\* The :id path parameter, as its characters.
IdParams == {<<"0">>, <<"1">>, <<"1", "x">>, <<"x">>}

(* ---- state ----------------------------------------------------------- *)
VARIABLES
    users,      \* parsed content of users.json
    bookings,   \* parsed content of bookings.json
    inflight,   \* requests past their load, awaiting saveData
    nreq,       \* requests issued so far
    last,       \* the request answered last, with its response
    acked       \* history: every request answered 201

vars == <<users, bookings, inflight, nreq, last, acked>>

User(id, email, pw, name, phone) ==
    [id |-> Num(id), email |-> Str(email), password |-> hashPassword(Str(pw)),
     name |-> Str(name), phone |-> Str(phone)]

\* Stores the server may start with: ids pairwise distinct, emails pairwise
\* distinct, gaps allowed.
InitialUsers ==
    {<<>>,
     <<User(1, "a@x", "pw1", "An", "0901"), User(3, "c@x", "pw1", "Chi", "0903"),
       User(5, "d@x", "pw2", "Dung", "0905")>>}

Booking(id, userId) ==
    [id |-> Num(id), technicianId |-> Num(1), customerName |-> Str("Lan"),
     phone |-> Str("0907"), address |-> Str("12 Le Loi"), serviceType |-> Str("electrical"),
     serviceId |-> Num(1), price |-> Num(150000), date |-> Str("2025-01-01"),
     time |-> Str(""), notes |-> Str(""), userId |-> userId]

InitialBookings == {<<>>, <<Booking(2, Num(1)), Booking(4, Null)>>}

NoResponse == [n |-> 0, op |-> "none", body |-> [none |-> TRUE], status |-> 0,
               res |-> [none |-> TRUE], loaded |-> FALSE, saved |-> FALSE]

Init ==
    /\ users \in InitialUsers
    /\ bookings \in InitialBookings
    /\ inflight = {}
    /\ nreq = 0
    /\ last = NoResponse
    /\ acked = {}

Respond(n, op, body, status, res, loaded, saved) ==
    [n |-> n, op |-> op, body |-> body, status |-> status, res |-> res,
     loaded |-> loaded, saved |-> saved]

\* error.message of a failed fs.writeFile.
WriteErrors == {"EACCES: permission denied"}

\* Line 36: the message of the Error saveData throws.
SaveError(file, e) == "Failed to save " \o file \o ": " \o e

(* ---- POST /api/signup ------------------------------------------------ *)
SignupMissing(body) ==
    ~Truthy(body.email) \/ ~Truthy(body.password) \/ ~Truthy(body.name) \/ ~Truthy(body.phone)

\* Line 316: users.find(u => u.email === email)
EmailExistsFirstOnly(snap, email) == snap # <<>> /\ snap[1].email = email
EmailExists(snap, email) == \E i \in DOMAIN snap : snap[i].email = email

NewUser(snap, body) ==
    [id |-> NextId(snap), email |-> body.email, password |-> hashPassword(body.password),
     name |-> body.name, phone |-> body.phone]

\* Lines 310-328: validation, loadData, the duplicate check, the new record.
SignupRequest(body) ==
    /\ nreq < MaxReqs
    /\ nreq' = nreq + 1
    /\ UNCHANGED <<users, bookings, acked>>
    /\ IF SignupMissing(body)
       THEN /\ last' = Respond(nreq + 1, "signup", body, 400,
                               [message |-> "Missing required fields"], FALSE, FALSE)
            /\ UNCHANGED inflight
       ELSE IF EmailExists(users, body.email)
       THEN /\ last' = Respond(nreq + 1, "signup", body, 400,
                               [message |-> "Email already exists"], TRUE, FALSE)
            /\ UNCHANGED inflight
       ELSE /\ inflight' = inflight \cup
                   {[n |-> nreq + 1, op |-> "signup", body |-> body, snap |-> users,
                     rec |-> NewUser(users, body)]}
            /\ UNCHANGED last

\* Lines 330-331: saveData succeeded.
SignupSavedAppend(r) ==
    /\ r.op = "signup"
    /\ users' = Append(users, r.rec)
    /\ inflight' = inflight \ {r}
    /\ last' = Respond(r.n, "signup", r.body, 201,
                       [message |-> "Sign-up successful", userId |-> r.rec.id], TRUE, TRUE)
    /\ acked' = acked \cup {r}
    /\ UNCHANGED <<bookings, nreq>>
SignupSaved(r) ==
    /\ r.op = "signup"
    /\ users' = Append(r.snap, r.rec)
    /\ inflight' = inflight \ {r}
    /\ last' = Respond(r.n, "signup", r.body, 201,
                       [message |-> "Sign-up successful", userId |-> r.rec.id], TRUE, TRUE)
    /\ acked' = acked \cup {r}
    /\ UNCHANGED <<bookings, nreq>>

\* Lines 34-36 and 332-334: writeFile failed with message e, saveData threw,
\* the handler's catch answers 500.
SignupSaveFailedSwallowed(r, e) ==
    /\ r.op = "signup"
    /\ inflight' = inflight \ {r}
    /\ last' = Respond(r.n, "signup", r.body, 201,
                       [message |-> "Sign-up successful", userId |-> r.rec.id], TRUE, FALSE)
    /\ acked' = acked \cup {r}
    /\ UNCHANGED <<users, bookings, nreq>>
SignupSaveFailed(r, e) ==
    /\ r.op = "signup"
    /\ inflight' = inflight \ {r}
    /\ last' = Respond(r.n, "signup", r.body, 500,
                       [message |-> "Error during sign-up",
                        error |-> SaveError("users.json", e)], TRUE, FALSE)
    /\ UNCHANGED <<users, bookings, nreq, acked>>

(* ---- POST /api/signin ------------------------------------------------ *)
\* Line 346: u => u.email === email && u.password === hashPassword(password)
CredentialsMatch(u, email, password) ==
    u.email = email /\ u.password = hashPassword(password)

\* users.find(...): UserFound is whether it returns a record rather than
\* undefined, FindUser is that record, the first match.
UserFound(snap, email, password) ==
    \E i \in DOMAIN snap : CredentialsMatch(snap[i], email, password)
FindUser(snap, email, password) ==
    snap[CHOOSE i \in DOMAIN snap :
             /\ CredentialsMatch(snap[i], email, password)
             /\ \A j \in 1..(i - 1) : ~CredentialsMatch(snap[j], email, password)]

SigninRequest(body) ==
    /\ nreq < MaxReqs
    /\ nreq' = nreq + 1
    /\ UNCHANGED <<users, bookings, inflight, acked>>
    /\ IF ~Truthy(body.email) \/ ~Truthy(body.password)
       THEN last' = Respond(nreq + 1, "signin", body, 400,
                            [message |-> "Missing email or password"], FALSE, FALSE)
       ELSE IF ~UserFound(users, body.email, body.password)
       THEN last' = Respond(nreq + 1, "signin", body, 401,
                            [message |-> "Invalid email or password"], TRUE, FALSE)
       ELSE LET user == FindUser(users, body.email, body.password)
            IN last' = Respond(nreq + 1, "signin", body, 200,
                               [message |-> "Sign-in successful", userId |-> user.id,
                                name |-> user.name], TRUE, FALSE)

(* ---- POST /api/book -------------------------------------------------- *)
\* Line 361.
BookMissingUndefinedOnly(body) == \E f \in RequiredBookFields : body[f] = Undefined
BookMissing(body) == \E f \in RequiredBookFields : ~Truthy(body[f])

NewBooking(snap, body) ==
    [id |-> NextId(snap), technicianId |-> body.technicianId,
     customerName |-> body.customerName, phone |-> body.phone, address |-> body.address,
     serviceType |-> body.serviceType, serviceId |-> body.serviceId,
     price |-> Or(body.price, Num(0)), date |-> body.date, time |-> Or(body.time, Str("")),
     notes |-> Or(body.notes, Str("")), userId |-> Or(body.userId, Null)]

\* Lines 360-381: validation, loadData, the new record.
BookRequest(body) ==
    /\ nreq < MaxReqs
    /\ nreq' = nreq + 1
    /\ UNCHANGED <<users, bookings, acked>>
    /\ IF BookMissing(body)
       THEN /\ last' = Respond(nreq + 1, "book", body, 400,
                               [message |-> "Missing required fields for booking"],
                               FALSE, FALSE)
            /\ UNCHANGED inflight
       ELSE /\ inflight' = inflight \cup
                   {[n |-> nreq + 1, op |-> "book", body |-> body, snap |-> bookings,
                     rec |-> NewBooking(bookings, body)]}
            /\ UNCHANGED last

\* Lines 383-384: saveData succeeded.
BookSaved(r) ==
    /\ r.op = "book"
    /\ bookings' = Append(r.snap, r.rec)
    /\ inflight' = inflight \ {r}
    /\ last' = Respond(r.n, "book", r.body, 201,
                       [message |-> "Booking confirmed!", booking |-> r.rec], TRUE, TRUE)
    /\ acked' = acked \cup {r}
    /\ UNCHANGED <<users, nreq>>

\* Lines 34-36 and 385-387: writeFile failed, the handler's catch answers 500.
BookSaveFailed(r, e) ==
    /\ r.op = "book"
    /\ inflight' = inflight \ {r}
    /\ last' = Respond(r.n, "book", r.body, 500,
                       [message |-> "Error during booking",
                        error |-> SaveError("bookings.json", e)], TRUE, FALSE)
    /\ UNCHANGED <<users, bookings, nreq, acked>>

(* ---- GET /api/user/:id/bookings -------------------------------------- *)
Digits == {"0", "1", "2", "3", "4", "5", "6", "7", "8", "9"}
DigitValue(c) == CHOOSE d \in 0..9 : <<"0", "1", "2", "3", "4", "5", "6", "7", "8", "9">>[d + 1] = c

\* parseInt on a string without leading blanks or sign: the value of its
\* longest prefix of decimal digits, NaN when that prefix is empty.
RECURSIVE ParseDigits(_, _)
ParseDigits(chars, acc) ==
    IF chars = <<>> \/ Head(chars) \notin Digits THEN acc
    ELSE ParseDigits(Tail(chars), 10 * acc + DigitValue(Head(chars)))
parseInt(chars) ==
    IF chars = <<>> \/ Head(chars) \notin Digits THEN NaN ELSE Num(ParseDigits(chars, 0))

\* Line 415: bookings.filter(b => b.userId === userId)
UserBookings(coll, userId) == SelectSeq(coll, LAMBDA b : b.userId = userId)

UserBookingsRequest(param) ==
    /\ nreq < MaxReqs
    /\ nreq' = nreq + 1
    /\ UNCHANGED <<users, bookings, inflight, acked>>
    /\ LET userId == parseInt(param)
       IN IF userId = NaN
          THEN last' = Respond(nreq + 1, "userBookings", [id |-> param], 400,
                               [message |-> "Invalid user ID"], FALSE, FALSE)
          ELSE last' = Respond(nreq + 1, "userBookings", [id |-> param], 200,
                               [array |-> UserBookings(bookings, userId)],
                               TRUE, FALSE)

Next ==
    \/ \E body \in SignupBodies : SignupRequest(body)
    \/ \E r \in inflight : SignupSaved(r)
    \/ \E r \in inflight, e \in WriteErrors : SignupSaveFailed(r, e)
    \/ \E body \in SigninBodies : SigninRequest(body)
    \/ \E body \in BookBodies : BookRequest(body)
    \/ \E r \in inflight : BookSaved(r)
    \/ \E r \in inflight, e \in WriteErrors : BookSaveFailed(r, e)
    \/ \E param \in IdParams : UserBookingsRequest(param)

Spec == Init /\ [][Next]_vars

(* ---- properties ------------------------------------------------------ *)
Range(coll) == {coll[i] : i \in DOMAIN coll}
Store(op) == IF op = "signup" THEN users ELSE bookings
UniqueIds(coll) == \A i, j \in DOMAIN coll : i # j => coll[i].id # coll[j].id
UniqueEmails(coll) == \A i, j \in DOMAIN coll : i # j => coll[i].email # coll[j].email
\* Two requests answered 201 that had loaded the same snapshot of the same store.
Raced(a, b) == a.n # b.n /\ a.op = b.op /\ a.snap = b.snap
IsNumeric(chars) == chars # <<>> /\ \A i \in DOMAIN chars : chars[i] \in Digits

\* C1: in every reachable state no two records of users.json have the same
\* id and no two records of bookings.json have the same id, whatever the
\* interleaving of the loads and saves of signup and book requests.
C1_UniqueIds == UniqueIds(users) /\ UniqueIds(bookings)

\* C1 witness: two signups that loaded the same snapshot have both saved,
\* and a booking has been saved.
C1_Witness ==
    /\ \E a, b \in acked : Raced(a, b) /\ a.op = "signup"
    /\ \E c \in acked : c.op = "book"

\* C2: in every reachable state no two records of users.json have the same
\* email, whatever the interleaving of signup requests.
C2_UniqueEmails == UniqueEmails(users)

\* C2 witness: two signups with the same email loaded the same snapshot and
\* both saved.
C2_Witness ==
    \E a, b \in acked : Raced(a, b) /\ a.op = "signup" /\ a.body.email = b.body.email

\* C3 (as claimed): every record written by a request answered 201 is in its
\* store in every later state.
C3_AckedRecordsPersist == \A a \in acked : a.rec \in Range(Store(a.op))

\* C4: the id given to a new user or booking is 1 when the loaded collection
\* is empty, and otherwise one more than the largest id loaded, so it is
\* above every loaded id and fills no gap.
C4_NextId ==
    \A r \in inflight \cup acked :
        IF r.snap = <<>> THEN r.rec.id = Num(1)
        ELSE /\ \A i \in DOMAIN r.snap : r.snap[i].id[2] < r.rec.id[2]
             /\ \E i \in DOMAIN r.snap : r.rec.id[2] = r.snap[i].id[2] + 1

\* C4 witness: a signup that loaded ids {1, 3, 5} was given 6 and a booking
\* that loaded an empty collection was given 1.
C4_Witness ==
    /\ \E r \in acked : r.op = "signup" /\ {u.id : u \in Range(r.snap)} = {Num(1), Num(3), Num(5)}
                        /\ r.rec.id = Num(6)
    /\ \E r \in acked : r.op = "book" /\ r.snap = <<>> /\ r.rec.id = Num(1)

C6_SigninAfterSignup ==
    \A a \in acked :
        (a.op = "signup" /\ last.op = "signin" /\ last.body.email = a.body.email
         /\ Truthy(last.body.password))
        => IF last.body.password = a.body.password
           THEN last.status = 200 /\ last.res.userId = a.rec.id /\ last.res.name = a.body.name
           ELSE last.status = 401

\* C7 (as claimed): a book request is answered 400 exactly when one of the
\* seven required fields is absent from it.
C7_RejectedIffAbsent ==
    last.op = "book" =>
        (last.status = 400 <=> \E f \in RequiredBookFields : last.body[f] = Undefined)

\* C7 (amended): a book request is answered 400, without load or save and with
\* bookings.json unchanged, exactly when one of the seven required fields is
\* absent or falsy (0, "", null); a request whose seven fields are all truthy
\* is answered 201 with its booking in bookings.json when the save succeeds,
\* and otherwise 500.
C7_RejectedIffFalsy ==
    [][(last'.n # last.n /\ last'.op = "book") =>
          /\ last'.status \in {400, 201, 500}
          /\ last'.status = 400 <=> \E f \in RequiredBookFields : ~Truthy(last'.body[f])
          /\ last'.status = 400 =>
                 (~last'.loaded /\ ~last'.saved /\ bookings' = bookings /\ inflight' = inflight)
          /\ last'.status # 400 =>
                 IF last'.saved
                 THEN last'.status = 201 /\ last'.res.booking \in Range(bookings')
                 ELSE last'.status = 500]_vars

\* C7 witness: a request with a required field present but falsy was answered
\* 400, after a complete request was answered 201 and its booking stored.
C7_Witness ==
    /\ last.op = "book" /\ last.status = 400
    /\ \E f \in RequiredBookFields : last.body[f] \notin {Undefined} /\ ~Truthy(last.body[f])
    /\ \E a \in acked : a.op = "book" /\ a.rec \in Range(bookings)

\* C8 (as claimed, for the ids signup assigns, 1 and above): for a numeric id
\* the answer is 200 with the stored bookings whose userId is that id, in
\* stored order, and every booking that a book request with that userId was
\* answered 201 for is in the answer.
C8_UserBookings ==
    (last.op = "userBookings" /\ IsNumeric(last.body.id) /\ ParseDigits(last.body.id, 0) >= 1) =>
        /\ last.status = 200
        /\ last.res.array = SelectSeq(bookings, LAMBDA b : b.userId = Num(ParseDigits(last.body.id, 0)))
        /\ \A a \in acked :
               (a.op = "book" /\ a.body.userId = Num(ParseDigits(last.body.id, 0)))
               => a.rec \in Range(last.res.array)

C10_LostUpdate ==
    \A a, b \in acked :
        (Raced(a, b) /\ last.n = b.n /\ last.status = 201) =>
            /\ a.rec.id = b.rec.id
            /\ last.res = IF b.op = "signup"
                          THEN [message |-> "Sign-up successful", userId |-> a.rec.id]
                          ELSE [message |-> "Booking confirmed!", booking |-> b.rec]
            /\ Store(b.op) = Append(b.snap, b.rec)
            /\ Cardinality({i \in DOMAIN Store(b.op) : Store(b.op)[i].id = a.rec.id}) = 1
            /\ a.rec # b.rec => a.rec \notin Range(Store(b.op))

\* C10 witness: two signups with different emails loaded the same snapshot,
\* both were answered 201 with the same userId, and only the later one's
\* user is stored.
C10_Witness ==
    \E a, b \in acked :
        /\ Raced(a, b) /\ a.op = "signup" /\ a.body.email # b.body.email
        /\ last.n = b.n /\ last.status = 201 /\ last.res.userId = a.rec.id
        /\ b.rec \in Range(users) /\ a.rec \notin Range(users)
====
